---- MODULE Spec2Model ----
(***************************************************************************)
(* SQLiteDocumentStore (haystack_sqlite/__init__.py): a document table     *)
(* shadowed by an FTS5 external-content index that three triggers keep in  *)
(* step, and the BM25 keyword query built on top of it.                    *)
(*                                                                         *)
(* The document table is a function from rowid to row.  The FTS5 index is  *)
(* a bag of (rowid, content) entries: an external-content table            *)
(* (content='document') stores only the tokens, keyed by rowid, and reads  *)
(* the id column back from the document table at query time.               *)
(***************************************************************************)
EXTENDS Integers, Sequences, FiniteSets, Bags, TLC

(* ------------------------------ bounds -------------------------------- *)
\* Largest rowid SQLite hands out in the model (rowid = max(rowid) + 1).
MaxRowid == 2
\* Largest top_k a caller passes.
MaxTopK == 2
\* Largest batch_size the materializer is run with (the default is 10_000).
MaxBatchSize == 2
\* Longest list of query texts given to query_batch.
MaxQueries == 2
\* Rows other connections insert while one scan of _query is under way.
MaxConcurrent == 1

(* ------------------------------ domains ------------------------------- *)
\* Document identifiers, in the order SQLite's text comparison gives them.
IdSeq == <<"d1", "d2">>
Ids == {IdSeq[k] : k \in 1..Len(IdSeq)}
IdRank(id) == CHOOSE k \in 1..Len(IdSeq) : IdSeq[k] = id

\* index: str = "document" is the store's default namespace (self.index).
DefaultIndex == "document"
Indexes == {DefaultIndex, "other"}
\* index: Optional[str] = None
None == "None"
\* The id SQLite returns for an index entry whose row is gone.
NullId == "NULL"

\* A content is the sequence of words of the text.
Contents == {<<"cat">>, <<"cat", "dog">>}
\* A query text is a sequence of whitespace-separated terms.
Queries == {<<"cat">>, <<"cat", "dog">>}

\* One metadata field, "type", with two values; a filter tree is None or
\* {"type": {"$in": ["a"]}}.
MetaVals == {"a", "b"}
\* filters: Optional[FilterType] = None
NoFilters == [field |-> None, in |-> {}]
Filters == {NoFilters, [field |-> "type", in |-> {"a"}]}

TriggerNames == {"document_ai", "document_ad", "document_au"}

VARIABLES
    document,       \* the document table: rowid -> [id, index, content, meta]
    fts_exists,     \* whether the virtual table document_fts exists
    fts,            \* document_fts: bag of [rowid, content] index entries
    fts_malformed,  \* an FTS5 'delete' was issued for an entry never indexed
    triggers,       \* the triggers that exist on the document table
    ret,            \* the last operation and what it returned
    frame           \* the query() call in progress, statement by statement

storevars == <<document, fts_exists, fts, fts_malformed, triggers>>
vars == <<document, fts_exists, fts, fts_malformed, triggers, ret, frame>>

Rowids == 1..MaxRowid
Range(s) == {s[k] : k \in 1..Len(s)}
MaxOf(S) == IF S = {} THEN 0 ELSE CHOOSE x \in S : \A y \in S : y <= x

\* Calls are synchronous: the caller has taken the result of the last query
\* before the next operation starts.
Idle == ret.op \notin {"query", "query_batch"} /\ frame.pc = "idle"

\* No query() call is in progress.
NoFrame ==
    [pc |-> "idle", query |-> <<>>, filters |-> NoFilters, index |-> None,
     scale_score |-> FALSE, batch_size |-> 0, results_as_dict |-> <<>>,
     doc_scores |-> <<>>, windows |-> <<>>, cursor |-> <<>>, i |-> 0,
     documents_map |-> <<>>, docs |-> <<>>, at_start |-> {}, qualified |-> {}]

Ret(op) == [op |-> op, status |-> "ok", args |-> <<>>, docs |-> <<>>, lists |-> <<>>]

(* ------------------------- the FTS5 index table ----------------------- *)
Entry(r, c) == [rowid |-> r, content |-> c]

\* INSERT INTO document_fts(rowid, content) VALUES (r, c)
FtsInsert(f, r, c) == f (+) SetToBag({Entry(r, c)})

\* INSERT INTO document_fts(document_fts, rowid, content) VALUES('delete', r, c)
FtsDelete(f, r, c) == f (-) SetToBag({Entry(r, c)})

\* The 'delete' command must be given the values that were indexed; SQLite
\* leaves the index inconsistent otherwise.
FtsDeleteMisses(f, r, c) == ~BagIn(Entry(r, c), f)

(* ------------------------------ triggers ------------------------------ *)
\* CREATE TRIGGER document_ai AFTER INSERT ON document
document_ai(f, new) == FtsInsert(f, new.rowid, new.content)

\* CREATE TRIGGER document_ad AFTER DELETE ON document
document_ad(f, old) == FtsDelete(f, old.rowid, old.content)

\* A bug the update trigger could have: the new content is indexed and the
\* old content is left in the index.
document_au_keeps_old(f, old, new) == FtsInsert(f, new.rowid, new.content)

\* CREATE TRIGGER document_au AFTER UPDATE ON document
document_au(f, old, new) ==
    FtsInsert(FtsDelete(f, old.rowid, old.content), new.rowid, new.content)

Row(r) == [rowid |-> r, content |-> document[r].content]

(* ------------------------- document mutations ------------------------- *)
\* INSERT INTO document: the row gets rowid max(rowid) + 1 and the
\* AFTER INSERT trigger, when it exists, runs in the same statement.
Insert(id, ns, c, m) ==
    LET r == MaxOf(DOMAIN document) + 1
        new == [rowid |-> r, content |-> c]
    IN  /\ Idle
        /\ r <= MaxRowid
        /\ \A x \in DOMAIN document :
               ~(document[x].id = id /\ document[x].index = ns)
        /\ document' = [x \in DOMAIN document \cup {r} |->
                           IF x = r
                           THEN [id |-> id, index |-> ns, content |-> c, meta |-> m]
                           ELSE document[x]]
        /\ fts' = IF "document_ai" \in triggers THEN document_ai(fts, new) ELSE fts
        /\ ret' = Ret("insert")
        /\ UNCHANGED <<fts_exists, fts_malformed, triggers, frame>>

\* UPDATE document SET content = c (an overwrite of an existing document):
\* the rowid is kept and the AFTER UPDATE trigger runs.
Update(r, c, m) ==
    LET old == Row(r)
        new == [rowid |-> r, content |-> c]
    IN  /\ Idle
        /\ r \in DOMAIN document
        /\ document' = [document EXCEPT ![r].content = c, ![r].meta = m]
        /\ fts' = IF "document_au" \in triggers THEN document_au(fts, old, new) ELSE fts
        /\ fts_malformed' = (fts_malformed \/
               ("document_au" \in triggers /\ FtsDeleteMisses(fts, old.rowid, old.content)))
        /\ ret' = Ret("update")
        /\ UNCHANGED <<fts_exists, triggers, frame>>

\* DELETE FROM document: the AFTER DELETE trigger runs.
Delete(r) ==
    LET old == Row(r)
    IN  /\ Idle
        /\ r \in DOMAIN document
        /\ document' = [x \in DOMAIN document \ {r} |-> document[x]]
        /\ fts' = IF "document_ad" \in triggers THEN document_ad(fts, old) ELSE fts
        /\ fts_malformed' = (fts_malformed \/
               ("document_ad" \in triggers /\ FtsDeleteMisses(fts, old.rowid, old.content)))
        /\ ret' = Ret("delete")
        /\ UNCHANGED <<fts_exists, triggers, frame>>

(* -------------------------- store construction ------------------------ *)
\* A bug index creation could have: the virtual table is dropped and created
\* again on every startup, which empties the index.
CreateVirtualTable_recreate(exists, f) == EmptyBag

\* CREATE VIRTUAL TABLE IF NOT EXISTS document_fts USING fts5(...,
\* content='document', content_rowid='rowid'): a new table indexes nothing,
\* an existing one is left as it is.
CreateVirtualTable(exists, f) == IF exists THEN f ELSE EmptyBag

\* CREATE TRIGGER IF NOT EXISTS, three times.
CreateTriggers(t) == t \cup TriggerNames

\* SQLiteDocumentStore.__init__ -> _create_bm25_index()
CreateIndex ==
    /\ Idle
    /\ fts_exists' = TRUE
    /\ fts' = CreateVirtualTable(fts_exists, fts)
    /\ triggers' = CreateTriggers(triggers)
    /\ ret' = Ret("create_index")
    /\ UNCHANGED <<document, fts_malformed, frame>>

(* ------------------------------- states ------------------------------- *)
EmptyTable == [x \in {} |-> None]

\* A store constructed on an empty document table.
Init ==
    /\ document = EmptyTable
    /\ fts_exists = TRUE
    /\ fts = EmptyBag
    /\ fts_malformed = FALSE
    /\ triggers = TriggerNames
    /\ ret = Ret("init")
    /\ frame = NoFrame

Mutate ==
    \/ \E id \in Ids, ns \in Indexes, c \in Contents, m \in MetaVals : Insert(id, ns, c, m)
    \/ \E r \in Rowids, c \in Contents, m \in MetaVals : Update(r, c, m)
    \/ \E r \in Rowids : Delete(r)

NextSync ==
    \/ Mutate
    \/ CreateIndex

SpecSync == Init /\ [][NextSync]_vars

\* Any document table a plain SQLDocumentStore can have left in the database
\* file before the BM25 store is constructed on it: no index, no triggers.
Rows == [id : Ids, index : Indexes, content : Contents, meta : MetaVals]
Tables ==
    UNION {{t \in [D -> Rows] :
               \A x, y \in D : (t[x].id = t[y].id /\ t[x].index = t[y].index) => x = y}
           : D \in SUBSET Rowids}

InitLegacy ==
    /\ document \in Tables
    /\ fts_exists = FALSE
    /\ fts = EmptyBag
    /\ fts_malformed = FALSE
    /\ triggers = {}
    /\ ret = Ret("init")
    /\ frame = NoFrame

SpecLegacy == InitLegacy /\ [][NextSync]_vars

(* ------------------------- the ranked query --------------------------- *)
\* The 'porter unicode61' tokenizer splits the content into its words.
Tf(t, c) == Cardinality({k \in 1..Len(c) : c[k] = t})

\* document_fts MATCH(:q): FTS5 reads terms separated by whitespace as an
\* implicit AND, so an entry matches when it holds every term of the text.
Matches(c, q) == \A t \in Range(q) : Tf(t, c) > 0

\* One term's share of the value: tf / (tf + length), scaled to integers.
TermWeight(tf, len) == (tf * 12) \div (tf + len)

RECURSIVE SumTerms(_, _)
SumTermsFrom(t, T, c) == TermWeight(Tf(t, c), Len(c)) + SumTerms(T \ {t}, c)
SumTerms(T, c) == IF T = {} THEN 0 ELSE SumTermsFrom(CHOOSE x \in T : TRUE, T, c)

\* bm25(document_fts): SQLite returns the BM25 value multiplied by -1, so a
\* better match has a numerically smaller value.  The value grows in size with
\* the term frequency and shrinks with the length of the content.
Bm25(c, q) == 0 - SumTerms(Range(q), c)

\* The id column of an external-content table is read from the document table
\* at the entry's rowid.
FtsId(r) == IF r \in DOMAIN document THEN document[r].id ELSE NullId

\* ORDER BY score: ascending, rows of equal score in rowid order.
RECURSIVE OrderByScore(_)
OrderByScoreFrom(x, S) == <<x>> \o OrderByScore(S \ {x})
OrderByScore(S) ==
    IF S = {} THEN <<>>
    ELSE OrderByScoreFrom(CHOOSE a \in S : \A b \in S :
                              \/ a.score < b.score
                              \/ (a.score = b.score /\ a.rowid <= b.rowid),
                          S)

\* SELECT id, bm25(document_fts) as score FROM document_fts
\* WHERE document_fts MATCH(:q) ORDER BY score  -- no restriction to a namespace
results_as_dict(q) ==
    OrderByScore({[id |-> FtsId(e.rowid), score |-> Bm25(e.content, q), rowid |-> e.rowid]
                     : e \in {x \in BagToSet(fts) : Matches(x.content, q)}})

valid_doc_ids(results) == [k \in 1..Len(results) |-> results[k].id]

\* expit(x / 8) in thousandths, for x in -16..0 (expit(0) = 0.5).
ExpitTable ==
    <<500, 469, 438, 407, 378, 349, 321, 294, 269, 245, 223, 202, 182, 165, 148, 133, 119>>
Expit8(x) == ExpitTable[1 - x]

\* float(expit(np.asarray(result['score'] / 8))) if scale_score else result['score']
Score(raw, scale_score) == IF scale_score THEN Expit8(raw) ELSE raw

\* The dict comprehension keyed by id: a later row replaces an earlier one.
doc_scores(results, scale_score) ==
    [id \in Range(valid_doc_ids(results)) |->
        LET k == MaxOf({j \in 1..Len(results) : results[j].id = id})
        IN  Score(results[k].score, scale_score)]

(* ------------------------- the materializer --------------------------- *)
\* parsed_filter.convert_to_sql(MetaDocumentORM): the ids of the documents
\* whose metadata satisfy the filter tree.
FilterIds(filters) ==
    {document[r].id : r \in {x \in DOMAIN document : document[x].meta \in filters.in}}

\* if document_ids: an empty list is falsy, like None.
Truthy(document_ids) == document_ids # <<>>

\* documents_query: filter_by(index=index), then id IN document_ids when
\* document_ids is not empty, then id IN select_ids when filters are given.
Qualifies(r, index, filters, document_ids) ==
    /\ document[r].index = (IF index = None THEN DefaultIndex ELSE index)
    /\ Truthy(document_ids) => document[r].id \in Range(document_ids)
    /\ filters # NoFilters => document[r].id \in FilterIds(filters)

\* The scan is ordered by DocumentORM.id.
RECURSIVE OrderById(_)
OrderByIdFrom(r, S) == <<r>> \o OrderById(S \ {r})
OrderById(S) ==
    IF S = {} THEN <<>>
    ELSE OrderByIdFrom(CHOOSE a \in S : \A b \in S :
                           IdRank(document[a].id) <= IdRank(document[b].id),
                       S)

\* Document.from_dict({...}) of a row, with the metadata _get_documents_meta adds.
DocumentOf(r) ==
    [id |-> document[r].id, content |-> document[r].content, meta |-> document[r].meta]

\* _query(index, filters, document_ids): the documents it yields, in the
\* order of the windowed scan over DocumentORM.id.
DocumentsOf(rows) == [k \in 1..Len(rows) |-> DocumentOf(rows[k])]
QueryDocuments(index, filters, document_ids) ==
    DocumentsOf(OrderById({r \in DOMAIN document : Qualifies(r, index, filters, document_ids)}))

(* --------------------------- query, query_batch ----------------------- *)
\* docs.sort(key=lambda x: x.score, reverse=True): stable, so equal scores
\* keep their order of arrival.
PlaceAt(sorted, d, n) == SubSeq(sorted, 1, n) \o <<d>> \o SubSeq(sorted, n + 1, Len(sorted))
PlaceByScore(sorted, d) ==
    PlaceAt(sorted, d, Cardinality({k \in 1..Len(sorted) : sorted[k].score >= d.score}))
RECURSIVE SortByScoreDesc(_)
SortByScoreDesc(docs) ==
    IF docs = <<>> THEN <<>>
    ELSE PlaceByScore(SortByScoreDesc(SubSeq(docs, 1, Len(docs) - 1)), docs[Len(docs)])

\* if top_k: docs = docs[:top_k]
Truncate(docs, top_k) ==
    IF top_k # 0 THEN SubSeq(docs, 1, IF top_k < Len(docs) THEN top_k ELSE Len(docs))
    ELSE docs

\* query(): the status is "KeyError" when doc_scores[doc.id] finds no score.
\* doc.score = doc_scores[doc.id]; docs.append(doc)
Scored(found, scores) ==
    [k \in 1..Len(found) |->
        [id |-> found[k].id, content |-> found[k].content,
         meta |-> found[k].meta, score |-> scores[found[k].id]]]

Compose(found, scores, top_k) ==
    IF \E k \in 1..Len(found) : found[k].id \notin DOMAIN scores
    THEN [status |-> "KeyError", docs |-> <<>>]
    ELSE [status |-> "ok", docs |-> Truncate(SortByScoreDesc(Scored(found, scores)), top_k)]

QueryFrom(results, filters, top_k, index, scale_score) ==
    Compose(QueryDocuments(index, filters, valid_doc_ids(results)),
            doc_scores(results, scale_score), top_k)

QueryCall(q, filters, top_k, index, all_terms_must_match, scale_score) ==
    QueryFrom(results_as_dict(q), filters, top_k, index, scale_score)

Args(q, filters, top_k, index, all_terms_must_match, scale_score) ==
    [query |-> q, filters |-> filters, top_k |-> top_k, index |-> index,
     all_terms_must_match |-> all_terms_must_match, scale_score |-> scale_score]

QueryRet(r, args) ==
    [op |-> "query", status |-> r.status, args |-> args, docs |-> r.docs, lists |-> <<>>]

Query(q, filters, top_k, index, all_terms_must_match, scale_score) ==
    /\ Idle
    /\ fts_exists
    /\ ret' = QueryRet(QueryCall(q, filters, top_k, index, all_terms_must_match, scale_score),
                       Args(q, filters, top_k, index, all_terms_must_match, scale_score))
    /\ UNCHANGED <<storevars, frame>>

\* query_batch(): self.query(query=query, top_k=top_k, index=index,
\* scale_score=scale_score) for each text; filters and all_terms_must_match
\* are not passed on and take query()'s defaults.
BatchCall(queries, filters, top_k, index, all_terms_must_match, scale_score) ==
    [k \in 1..Len(queries) |-> QueryCall(queries[k], NoFilters, top_k, index, FALSE, scale_score)]

\* An exception raised by one query() leaves query_batch() before it returns.
BatchRet(rs, args) ==
    IF \E k \in 1..Len(rs) : rs[k].status # "ok"
    THEN [op |-> "query_batch", status |-> "KeyError", args |-> args,
          docs |-> <<>>, lists |-> <<>>]
    ELSE [op |-> "query_batch", status |-> "ok", args |-> args,
          docs |-> <<>>, lists |-> [k \in 1..Len(rs) |-> rs[k].docs]]

QueryBatch(queries, filters, top_k, index, all_terms_must_match, scale_score) ==
    /\ Idle
    /\ fts_exists
    /\ ret' = BatchRet(BatchCall(queries, filters, top_k, index, all_terms_must_match, scale_score),
                       Args(queries, filters, top_k, index, all_terms_must_match, scale_score))
    /\ UNCHANGED <<storevars, frame>>

\* return docs / return result_documents: the caller takes the result.
Return ==
    /\ ret.op \in {"query", "query_batch"}
    /\ ret' = Ret("return")
    /\ UNCHANGED <<storevars, frame>>

TopKs == 0..MaxTopK
IndexArgs == {None, "other"}
Batches == UNION {[1..n -> Queries] : n \in 1..MaxQueries}

Next ==
    \/ Mutate
    \/ CreateIndex
    \/ \E q \in Queries, f \in Filters, k \in TopKs, i \in IndexArgs, a, s \in BOOLEAN :
           Query(q, f, k, i, a, s)
    \/ \E qs \in Batches, f \in Filters, k \in TopKs, i \in IndexArgs, a, s \in BOOLEAN :
           QueryBatch(qs, f, k, i, a, s)
    \/ Return

Spec == Init /\ [][Next]_vars

(* ------------------------- the windowed scan -------------------------- *)
\* self._windowed_query(documents_query, DocumentORM.id, batch_size), the
\* SQLDocumentStore method _query() hands its query to.  Its first statement
\* numbers the ids of the whole document table in id order
\* (row_number() over (order by id)) and keeps every batch_size-th of them,
\* rownum % batch_size = 1, or all of them when batch_size is 1: these are
\* the lower bounds of the windows.
TableIds == [k \in 1..Cardinality(DOMAIN document) |->
                document[OrderById(DOMAIN document)[k]].id]
StartsWindow(k, windowsize) == windowsize > 1 => k % windowsize = 1
KeptFrom(ids, keep) ==
    [j \in 1..Cardinality(keep) |->
        ids[CHOOSE k \in keep : Cardinality({x \in keep : x <= k}) = j]]
Intervals(ids, windowsize) ==
    KeptFrom(ids, {k \in 1..Len(ids) : StartsWindow(k, windowsize)})
column_windows(windowsize) == Intervals(TableIds, windowsize)

\* A window that also takes the row at its upper bound.
InWindow_closed(id, start, end) ==
    /\ IdRank(id) >= IdRank(start)
    /\ end # None => IdRank(id) <= IdRank(end)
\* The WHERE clause of one window: id >= start AND id < end, and id >= start
\* alone for the last window.
InWindow(id, start, end) ==
    /\ IdRank(id) >= IdRank(start)
    /\ end # None => IdRank(id) < IdRank(end)

\* q.filter(whereclause).order_by(column): the rows of documents_query that
\* lie in the window, read from the table as it is when the statement runs.
WindowRows(index, filters, document_ids, start, end) ==
    DocumentsOf(OrderById({r \in DOMAIN document :
                              /\ Qualifies(r, index, filters, document_ids)
                              /\ InWindow(document[r].id, start, end)}))

(* ---------------- query(), one statement at a time -------------------- *)
\* if i % batch_size == 0: the batch is complete.
FlushDue_never(i, batch_size) == FALSE
FlushDue(i, batch_size) == i % batch_size = 0

\* The stored tables a store constructed on an empty table can hold: any
\* document table, with the index the triggers have kept in step with it.
InitScan ==
    /\ document \in Tables
    /\ fts_exists = TRUE
    /\ fts = SetToBag({Entry(r, document[r].content) : r \in DOMAIN document})
    /\ fts_malformed = FALSE
    /\ triggers = TriggerNames
    /\ ret = Ret("init")
    /\ frame = NoFrame

\* query() up to the for loop: the MATCH statement is run, all of its rows are
\* read (.mappings().all()), valid_doc_ids and doc_scores are built, _query()
\* is set up with its batch_size and the bounds of its windows are read.
\* at_start and qualified remember the rows the table held then and those of
\* them that qualified; the scan does not read them.
BeginFrame(results, q, filters, index, scale_score, batch_size) ==
    [pc |-> "scan", query |-> q, filters |-> filters, index |-> index,
     scale_score |-> scale_score, batch_size |-> batch_size,
     results_as_dict |-> results,
     doc_scores |-> doc_scores(results, scale_score),
     windows |-> column_windows(batch_size),
     cursor |-> <<>>,
     i |-> 0, documents_map |-> <<>>, docs |-> <<>>,
     at_start |-> DOMAIN document,
     qualified |-> {r \in DOMAIN document :
                       Qualifies(r, index, filters, valid_doc_ids(results))}]

Begin(q, filters, index, scale_score, batch_size) ==
    /\ Idle
    /\ fts_exists
    /\ frame' = BeginFrame(results_as_dict(q), q, filters, index, scale_score, batch_size)
    /\ UNCHANGED <<storevars, ret>>

\* The next window of the scan: its lower bound is taken off the list, its
\* upper bound is the lower bound of the window after it, and its statement
\* is run.
WindowEnd(rest) == IF rest # <<>> THEN Head(rest) ELSE None
NextPage ==
    /\ frame.pc = "scan"
    /\ frame.cursor = <<>>
    /\ frame.windows # <<>>
    /\ frame' = [frame EXCEPT
           !.windows = Tail(@),
           !.cursor = WindowRows(frame.index, frame.filters,
                                 valid_doc_ids(frame.results_as_dict),
                                 Head(frame.windows), WindowEnd(Tail(frame.windows)))]
    /\ UNCHANGED <<storevars, ret>>

\* for i, row in enumerate(documents_query, start=1):
\*     documents_map[row.id] = Document.from_dict(...)
Fetch ==
    /\ frame.pc = "scan"
    /\ frame.cursor # <<>>
    /\ frame' = [frame EXCEPT
           !.i = @ + 1,
           !.cursor = Tail(@),
           !.documents_map = Append(@, Head(frame.cursor)),
           !.pc = IF FlushDue(frame.i + 1, frame.batch_size) THEN "flush" ELSE "scan"]
    /\ UNCHANGED <<storevars, ret>>

\* The arguments of the call as the caller gave them; top_k and
\* all_terms_must_match are not read before the call's last statements.
FrameArgs(top_k, all_terms_must_match) ==
    Args(frame.query, frame.filters, top_k, frame.index, all_terms_must_match,
         frame.scale_score)

\* yield from documents_map.values(), taken by query()'s loop:
\* doc.score = doc_scores[doc.id]; docs.append(doc).  A missing key ends the
\* call with a KeyError.
Yield(top_k, all_terms_must_match) ==
    IF \E k \in 1..Len(frame.documents_map) :
           frame.documents_map[k].id \notin DOMAIN frame.doc_scores
    THEN /\ ret' = QueryRet([status |-> "KeyError", docs |-> <<>>],
                            FrameArgs(top_k, all_terms_must_match))
         /\ frame' = NoFrame
    ELSE /\ frame' = [frame EXCEPT
                !.docs = @ \o Scored(frame.documents_map, frame.doc_scores),
                !.documents_map = <<>>,
                !.pc = "scan"]
         /\ ret' = ret

\* A complete batch: documents_map = self._get_documents_meta(documents_map);
\* yield from documents_map.values(); documents_map = {}
Flush(top_k, all_terms_must_match) ==
    /\ frame.pc = "flush"
    /\ Yield(top_k, all_terms_must_match)
    /\ UNCHANGED storevars

\* After the loop: if documents_map: the last, partial batch is yielded.
FlushLast(top_k, all_terms_must_match) ==
    /\ frame.pc = "scan"
    /\ frame.cursor = <<>>
    /\ frame.windows = <<>>
    /\ frame.documents_map # <<>>
    /\ Yield(top_k, all_terms_must_match)
    /\ UNCHANGED storevars

\* docs.sort(key=lambda x: x.score, reverse=True); docs = docs[:top_k]; return docs
Finish(top_k, all_terms_must_match) ==
    /\ frame.pc = "scan"
    /\ frame.cursor = <<>>
    /\ frame.windows = <<>>
    /\ frame.documents_map = <<>>
    /\ ret' = QueryRet([status |-> "ok",
                        docs |-> Truncate(SortByScoreDesc(frame.docs), top_k)],
                       FrameArgs(top_k, all_terms_must_match))
    /\ frame' = NoFrame
    /\ UNCHANGED storevars

BatchSizes == 1..MaxBatchSize

NextScan ==
    \/ \E q \in Queries, f \in Filters, i \in IndexArgs, s \in BOOLEAN, b \in BatchSizes :
           Begin(q, f, i, s, b)
    \/ NextPage
    \/ Fetch
    \/ \E k \in TopKs, a \in BOOLEAN : Flush(k, a)
    \/ \E k \in TopKs, a \in BOOLEAN : FlushLast(k, a)
    \/ \E k \in TopKs, a \in BOOLEAN : Finish(k, a)
    \/ Return

SpecScan == InitScan /\ [][NextScan]_vars

\* Another connection inserts a document while the scan is between two of
\* its statements: the statement of a window reads all of its rows, so the
\* insert is seen by the windows that are still to come.  The row gets the
\* next rowid and the AFTER INSERT trigger indexes it.
ConcurrentInsert(id, ns, c, m) ==
    LET r == MaxOf(DOMAIN document) + 1
        new == [rowid |-> r, content |-> c]
    IN  /\ frame.pc = "scan"
        /\ frame.cursor = <<>>
        /\ frame.windows # <<>>
        /\ Cardinality(DOMAIN document \ frame.at_start) < MaxConcurrent
        /\ \A x \in DOMAIN document :
               ~(document[x].id = id /\ document[x].index = ns)
        /\ document' = [x \in DOMAIN document \cup {r} |->
                           IF x = r
                           THEN [id |-> id, index |-> ns, content |-> c, meta |-> m]
                           ELSE document[x]]
        /\ fts' = IF "document_ai" \in triggers THEN document_ai(fts, new) ELSE fts
        /\ UNCHANGED <<fts_exists, fts_malformed, triggers, ret, frame>>

\* One scan of a table other connections insert into.  The scan reads
\* neither scale_score, top_k and all_terms_must_match nor the content of a
\* row inserted after the MATCH statement, so one value of each is enough.
NextPages ==
    \/ \E q \in Queries, f \in Filters, i \in IndexArgs, b \in BatchSizes :
           Begin(q, f, i, FALSE, b)
    \/ NextPage
    \/ \E id \in Ids, ns \in Indexes, m \in MetaVals :
           ConcurrentInsert(id, ns, <<"cat">>, m)
    \/ Fetch
    \/ Flush(0, FALSE)
    \/ FlushLast(0, FALSE)
    \/ Finish(0, FALSE)

SpecPages == InitScan /\ [][NextPages]_vars

\* The statement-by-statement call returns what the call taken as a whole does.
ScanAgreesWithQuery ==
    (ret.op = "query") =>
        LET r == QueryCall(ret.args.query, ret.args.filters, ret.args.top_k,
                           ret.args.index, ret.args.all_terms_must_match,
                           ret.args.scale_score)
        IN  ret.status = r.status /\ ret.docs = r.docs

(* -------------------------- index consistency ------------------------- *)
\* The (identifier, content) pairs reachable through the index: the content
\* that was indexed, with the id the document table holds at the entry's rowid.
IndexPairs ==
    {<<IF e.rowid \in DOMAIN document THEN document[e.rowid].id ELSE NullId, e.content>>
        : e \in BagToSet(fts)}

LivePairs == {<<document[r].id, document[r].content>> : r \in DOMAIN document}

\* One index entry per live row, holding the row's content, and nothing else.
IndexIsShadow ==
    fts = SetToBag({Entry(r, document[r].content) : r \in DOMAIN document})

\* C1: from a store constructed on an empty table, after every insert, update
\* and delete the (identifier, content) pairs reachable through the index are
\* exactly those of the live rows: no orphan, no missing entry, no stale content.
C1_IndexConsistency ==
    /\ IndexPairs = LivePairs
    /\ \A e \in BagToSet(fts) :
           /\ e.rowid \in DOMAIN document
           /\ document[e.rowid].content = e.content
           /\ CopiesIn(e, fts) = 1
    /\ \A r \in DOMAIN document : BagIn(Entry(r, document[r].content), fts)

\* An update has replaced a document's content while another document is live.
C1_Witness ==
    /\ ret.op = "update"
    /\ Cardinality(DOMAIN document) >= 2
    /\ \E r \in DOMAIN document : document[r].content = <<"cat", "dog">>
    /\ fts # EmptyBag

\* C9: right after a store is constructed over a table that already holds
\* documents, every live document has exactly one index entry with its content.
C9_IndexAfterConstruction ==
    (ret.op = "create_index") => IndexIsShadow

\* C10: constructing the store again when the index table and its triggers
\* exist changes neither the index, nor the triggers, nor the document table,
\* and afterwards every mutation still leaves exactly one entry per live row.
C10_CreateIndexIdempotent ==
    /\ [][(fts_exists /\ triggers = TriggerNames /\ ret'.op = "create_index")
            => UNCHANGED <<document, fts_exists, fts, fts_malformed, triggers>>]_vars
    /\ []IndexIsShadow

\* The store has been constructed again over an index that already held the
\* entries of two documents.
C10_Witness ==
    /\ ret.op = "create_index"
    /\ Cardinality(DOMAIN document) >= 2
    /\ BagCardinality(fts) >= 2

(* ------------------------- what a query returns ----------------------- *)
NamespaceOf(index) == IF index = None THEN DefaultIndex ELSE index

PassesFilter(meta, filters) == filters = NoFilters \/ meta \in filters.in

\* At least one term of the text occurs in the content.
MatchesAny(c, q) == \E t \in Range(q) : Tf(t, c) > 0

\* The rows of the namespace whose own content matches the text and whose
\* metadata pass the filter.
Expected(q, filters, index) ==
    {r \in DOMAIN document :
        /\ document[r].index = NamespaceOf(index)
        /\ Matches(document[r].content, q)
        /\ PassesFilter(document[r].meta, filters)}

Min(a, b) == IF a < b THEN a ELSE b

\* C2: of two returned documents, the one BM25 rates as more relevant (the
\* numerically smaller raw value) has the larger score attached and comes first.
C2_ScoreOrder ==
    (ret.op = "query" /\ ret.status = "ok") =>
        \A i, j \in 1..Len(ret.docs) :
            Bm25(ret.docs[i].content, ret.args.query) < Bm25(ret.docs[j].content, ret.args.query)
                => (ret.docs[i].score > ret.docs[j].score /\ i < j)

\* C3: a query whose text matches no indexed document returns an empty list
\* and raises nothing, whatever the table holds.
C3_NoMatchReturnsEmpty ==
    (ret.op = "query" /\ results_as_dict(ret.args.query) = <<>>) =>
        (ret.status = "ok" /\ ret.docs = <<>>)

\* C4: every returned document matches the text and passes the filter, and a
\* filtered query with no document in both sets returns an empty list.
C4_FilterIntersection ==
    (ret.op = "query" /\ ret.args.filters # NoFilters) =>
        /\ \A k \in 1..Len(ret.docs) :
               /\ Matches(ret.docs[k].content, ret.args.query)
               /\ PassesFilter(ret.docs[k].meta, ret.args.filters)
        /\ Expected(ret.args.query, ret.args.filters, ret.args.index) = {}
               => (ret.status = "ok" /\ ret.docs = <<>>)

\* C5: with top_k = k >= 1 the query returns min(k, m) documents, m the number
\* that match the text and pass the filter; each passes the filter and none
\* left out has a higher score than one returned.
C5_TopK ==
    (ret.op = "query" /\ ret.args.top_k >= 1) =>
        /\ ret.status = "ok"
        /\ Len(ret.docs) = Min(ret.args.top_k,
               Cardinality(Expected(ret.args.query, ret.args.filters, ret.args.index)))
        /\ \A k \in 1..Len(ret.docs) : PassesFilter(ret.docs[k].meta, ret.args.filters)
        /\ LET all == QueryCall(ret.args.query, ret.args.filters, 0, ret.args.index,
                                ret.args.all_terms_must_match, ret.args.scale_score).docs
           IN  \A x \in (Len(ret.docs) + 1)..Len(all), y \in 1..Len(ret.docs) :
                   all[x].score <= ret.docs[y].score

\* C6: without all_terms_must_match the query returns the documents holding
\* at least one term, with it those holding every term.
C6_TermCombinator ==
    (/\ ret.op = "query"
     /\ ret.status = "ok"
     /\ ret.args.filters = NoFilters
     /\ ret.args.top_k = 0) =>
        {ret.docs[k].id : k \in 1..Len(ret.docs)} =
            {document[r].id : r \in {x \in DOMAIN document :
                /\ document[x].index = NamespaceOf(ret.args.index)
                /\ IF ret.args.all_terms_must_match
                   THEN Matches(document[x].content, ret.args.query)
                   ELSE MatchesAny(document[x].content, ret.args.query)}}

\* C7: query_batch returns, per text and in input order, what query returns
\* for that text with the same filters, top_k, index and flags.
C7_BatchEqualsQueries ==
    (ret.op = "query_batch") =>
        LET each == [k \in 1..Len(ret.args.query) |->
                        QueryCall(ret.args.query[k], ret.args.filters, ret.args.top_k,
                                  ret.args.index, ret.args.all_terms_must_match,
                                  ret.args.scale_score)]
        IN  IF \E k \in 1..Len(each) : each[k].status # "ok"
            THEN ret.status # "ok"
            ELSE /\ ret.status = "ok"
                 /\ ret.lists = [k \in 1..Len(each) |-> each[k].docs]

(* ------------------------ memory held by a query ---------------------- *)
\* C8 as stated: during a query() call neither the matches held nor the
\* Document values held exceed the batch size.
C8_HeldWithinBatchSize ==
    (frame.pc # "idle") =>
        /\ Len(frame.results_as_dict) <= frame.batch_size
        /\ Len(frame.documents_map) + Len(frame.docs) <= frame.batch_size

\* C8, amended: during the materialization a query() drives, the batch map of
\* _query never holds more than batch_size Documents; what query() itself
\* holds, the matches and the materialized documents, is bounded by the number
\* of index entries and of rows in the namespace, not by the batch size.
C8_BatchMapWithinBatchSize ==
    (frame.pc # "idle") =>
        /\ Len(frame.documents_map) <= frame.batch_size
        /\ Len(frame.results_as_dict) <= BagCardinality(fts)
        /\ Len(frame.documents_map) + Len(frame.docs) <=
               Cardinality({r \in DOMAIN document :
                               document[r].index = NamespaceOf(frame.index)})

\* A second batch is complete while the first has already been handed to
\* query(): more documents qualify than one batch holds.
C8_Witness ==
    /\ frame.pc = "flush"
    /\ Len(frame.documents_map) = frame.batch_size
    /\ Len(frame.docs) >= 1
    /\ Len(frame.results_as_dict) > frame.batch_size

(* ----------------------- identifiers and namespaces ------------------- *)
\* Two live rows of different namespaces carry the same identifier.
SharedId == \E x, y \in DOMAIN document :
                x # y /\ document[x].id = document[y].id

\* C12: when two namespaces hold documents with the same identifier, every
\* document a query returns matches the text with its own content and carries
\* the score of its own index entry.
C12_NamespaceIsolation ==
    (ret.op = "query" /\ ret.status = "ok" /\ SharedId) =>
        \A k \in 1..Len(ret.docs) :
            /\ Matches(ret.docs[k].content, ret.args.query)
            /\ ret.docs[k].score =
                   Score(Bm25(ret.docs[k].content, ret.args.query), ret.args.scale_score)

(* --------------------------- the materializer ------------------------- *)
\* The rows that qualify for the scan in progress.
Qualifying ==
    {r \in DOMAIN document :
        Qualifies(r, frame.index, frame.filters, valid_doc_ids(frame.results_as_dict))}
\* The documents _query has yielded so far, and those with the batch map.
Yielded(f) == f.docs
Delivered(f) == f.docs \o f.documents_map
Times(seq, id) == Cardinality({k \in 1..Len(seq) : seq[k].id = id})

\* No document is delivered by two pages.
NoOverlap == \A id \in Ids : Times(Delivered(frame), id) <= 1

\* C11: for every batch size and every table, _query yields each document
\* that qualifies from the start of the scan to its end exactly once and no
\* document twice, also when other documents are inserted between two pages;
\* a flush emits at most batch_size documents, and when the scan ends the
\* last, partial batch has been emitted.  Rows are only inserted during the
\* scan, so a row that qualified at its start qualifies until its end.
C11_ExactlyOnce ==
    /\ []NoOverlap
    /\ [][(frame.pc # "idle" /\ frame'.pc # "idle") =>
              Len(Yielded(frame')) - Len(Yielded(frame)) <= frame.batch_size]_vars
    /\ [][(frame.pc # "idle" /\ frame'.pc = "idle" /\ ret'.status = "ok") =>
              /\ frame.documents_map = <<>>
              /\ frame.qualified \subseteq Qualifying
              /\ \A r \in frame.qualified :
                     Times(Yielded(frame), document[r].id) = 1]_vars

\* A scan is at its end and has yielded a document that qualified from its
\* start, and a document that qualifies was inserted behind it: after the page
\* of its window was read and before a later page was.
C11_Witness ==
    /\ frame.pc = "scan"
    /\ frame.windows = <<>>
    /\ frame.cursor = <<>>
    /\ frame.documents_map = <<>>
    /\ \E r \in frame.qualified : Times(Yielded(frame), document[r].id) = 1
    /\ \E r \in Qualifying \ frame.at_start :
           Times(Yielded(frame), document[r].id) = 0

====
